---- MODULE Spec2Model ----
(***************************************************************************)
(* Leaky-bucket admission controller (rate_limiter.algorithms.leaky_bucket) *)
(* as a state machine.                                                      *)
(*                                                                          *)
(* The engine runs on an asyncio event loop: a coroutine runs without       *)
(* interruption until an await that really suspends.  asyncio.Lock.acquire  *)
(* returns without suspending when the lock is free, and no critical        *)
(* section of the engine contains an await, so the lock is free at every    *)
(* point where the event loop can switch tasks.  The suspension points of   *)
(* the engine are therefore asyncio.sleep in _leak_bucket and               *)
(* `await self.leak_task` in stop; every action of Spec is the code between *)
(* two such points.  SpecFine takes the same code in smaller steps, one up  *)
(* to the acquisition of self.lock and one for the section under it, and    *)
(* is where the claim that the lock is never contended is checked.          *)
(*                                                                          *)
(* Time is counted in ticks of 1/TicksPerSec second, chosen so that         *)
(* processing_interval = 1.0 / leak_rate is a whole number of ticks for     *)
(* every leak rate tried and is represented exactly.                        *)
(***************************************************************************)
EXTENDS Integers, Sequences, FiniteSets, TLC

\* ---------------------------------------------------------------- bounds
MaxReq == 3          \* requests ever built by callers
MaxTime == 1         \* the clock stops at this tick
MaxTasks == 2        \* drain tasks ever created by start()

MaxCap == MaxReq - 1           \* largest bucket_size passed to the constructor
LeakRates == {1, 2}            \* positive leak_rate values passed to the constructor
\* the coarsest clock in which every 1.0 / leak_rate is a whole number of ticks
TicksPerSec ==
    CHOOSE n \in 1..4 :
        /\ \A r \in LeakRates : n % r = 0
        /\ \A m \in 1..(n - 1) : \E r \in LeakRates : m % r # 0
ReqIds == 1..MaxReq
TaskIds == 1..MaxTasks
Callers == {"A", "B"}          \* tasks of the host that call start() and stop()

\* Optional values: None is the empty tuple, a value v is <<v>>
None == <<>>
Some(v) == <<v>>
NoTask == 0

\* ------------------------------------------------------- constructor input
ValidBucketSizes == 1..MaxCap
ValidLeakRates == LeakRates
AnyBucketSizes == (-1)..MaxCap
AnyLeakRates == ValidLeakRates \cup {0} \cup {-r : r \in ValidLeakRates}

\* ------------------------------------------------------------ conversions
\* int(x) of the quotient a / b, b > 0: truncation toward zero
Trunc(a, b) == IF a >= 0 THEN a \div b ELSE -((-a) \div b)

Digit(d) ==
    CASE d = 0 -> "0" [] d = 1 -> "1" [] d = 2 -> "2" [] d = 3 -> "3"
      [] d = 4 -> "4" [] d = 5 -> "5" [] d = 6 -> "6" [] d = 7 -> "7"
      [] d = 8 -> "8" [] d = 9 -> "9"

RECURSIVE NatStr(_)
NatStr(n) == IF n < 10 THEN <<Digit(n)>> ELSE NatStr(n \div 10) \o <<Digit(n % 10)>>

\* str(n) for an int n: the decimal digits, as a sequence of characters
Str(n) == IF n < 0 THEN <<"-">> \o NatStr(-n) ELSE NatStr(n)

\* 1.0 / leak_rate, in ticks (leak_rate # 0)
Interval(rate) ==
    IF rate > 0 THEN TicksPerSec \div rate ELSE -(TicksPerSec \div (-rate))

\* ------------------------------------------------------------------ state
VARIABLES
    phase,              \* "new": __init__ not run; "ready": engine built; "error": __init__ raised
    args,               \* the arguments given to __init__
    bucket_size, leak_rate, processing_interval,
    bucket,             \* self.bucket, a deque of requests, head first
    maxlen,             \* self.bucket.maxlen
    total_requests, accepted_requests, rejected_requests,
    processing_times,   \* self.processing_times
    leak_task,          \* self.leak_task: NoTask (None) or a task id
    tasks,              \* the drain tasks created so far
    awaiting,           \* per caller: the task its stop() awaits, or NoTask
    now,                \* time(), in ticks
    issued,             \* number of allow_request calls made so far
    responses,          \* per request id: is_allowed of the verdict its call returned
    reply,              \* the verdict returned by the latest allow_request call
    arrival,            \* history: ids of the queued requests, in the order of admission
    lock,               \* self.lock: locked, and the coroutines waiting for it, first first
    running,            \* the coroutine the event loop is running, between two of its steps
    inside,             \* the coroutines inside `async with self.lock`
    mw,                 \* the HTTPRateLimiter: status_code, error_message, stats
    forwarding,         \* the admitted HTTP requests that are in call_next
    http,               \* the response the middleware returned last, with its request
    app                 \* the host application and the phase of its life

engine == <<bucket_size, leak_rate, processing_interval, bucket, maxlen,
            total_requests, accepted_requests, rejected_requests,
            processing_times, leak_task>>
vars == <<phase, args, bucket_size, leak_rate, processing_interval, bucket, maxlen,
          total_requests, accepted_requests, rejected_requests, processing_times,
          leak_task, tasks, awaiting, now, issued, responses,
          reply, arrival, lock, running, inside, mw, forwarding, http, app>>

\* what `async with self.lock` reads and writes
sync == <<lock, running, inside>>

\* the middleware
adapter == <<mw, forwarding, http>>

\* the middleware and the application it is added to
host == <<mw, forwarding, http, app>>

NoTaskRec == [st |-> "none", wake |-> 0, must_cancel |-> FALSE]

InitEngine(sizes, rates) ==
    /\ phase = "new"
    /\ args \in [bucket_size : sizes, leak_rate : rates]
    /\ bucket_size = 0 /\ leak_rate = 0 /\ processing_interval = 0
    /\ bucket = <<>> /\ maxlen = 0
    /\ total_requests = 0 /\ accepted_requests = 0 /\ rejected_requests = 0
    /\ processing_times = <<>>
    /\ leak_task = NoTask
    /\ tasks = [t \in TaskIds |-> NoTaskRec]
    /\ awaiting = [c \in Callers |-> NoTask]
    /\ now = 0
    /\ issued = 0
    /\ responses = [i \in ReqIds |-> None]
    /\ reply = None
    /\ arrival = <<>>
    /\ lock = [locked |-> FALSE, waiters |-> <<>>]
    /\ running = None
    /\ inside = {}

\* the event loop is between two coroutine steps: it picks what runs next
Idle == running = None

DefaultStatus == 429

\* HTTPRateLimiter.__init__
Middleware(status_code) ==
    [status_code |-> status_code,
     error_message |-> "Too Many Requests",
     stats |-> [total_requests |-> 0, allowed_requests |-> 0, rejected_requests |-> 0]]

\* An application: whether its lifespan handler is registered with FastAPI,
\* whether its route handler calls allow_request itself, and its phase.
Application(name, lifespan, handler_limits) ==
    [name |-> name, lifespan |-> lifespan, handler_limits |-> handler_limits,
     phase |-> "created"]

\* no application: the engine is driven directly, as by the engine's tests
Standalone == Application("none", FALSE, FALSE)

InitWith(sizes, rates) ==
    /\ InitEngine(sizes, rates)
    /\ mw = Middleware(DefaultStatus)
    /\ forwarding = {}
    /\ http = None
    /\ app = Standalone

Init == InitWith(ValidBucketSizes, ValidLeakRates)
InitAny == InitWith(AnyBucketSizes, AnyLeakRates)

\* ------------------------------------------------------------- __init__
\* 1.0 / leak_rate raises ZeroDivisionError for 0; deque(maxlen=n) raises
\* ValueError for n < 0.  Nothing else is validated.
ConstructorRaises(a) == a.leak_rate = 0 \/ a.bucket_size < 0

Construct ==
    /\ Idle
    /\ phase = "new"
    /\ IF ConstructorRaises(args)
       THEN /\ phase' = "error"
            /\ UNCHANGED <<bucket_size, leak_rate, processing_interval, maxlen>>
       ELSE /\ phase' = "ready"
            /\ bucket_size' = args.bucket_size
            /\ leak_rate' = args.leak_rate
            /\ processing_interval' = Interval(args.leak_rate)
            /\ maxlen' = args.bucket_size
    /\ UNCHANGED <<args, bucket, total_requests, accepted_requests, rejected_requests,
                   processing_times, leak_task, tasks, awaiting, now, issued,
                   responses, reply, arrival>>
    /\ UNCHANGED sync
    /\ UNCHANGED host

\* ---------------------------------------------------------------- clock
Tick ==
    /\ Idle
    /\ now < MaxTime
    /\ now' = now + 1
    /\ UNCHANGED <<phase, args, engine, tasks, awaiting, issued, responses,
                   reply, arrival>>
    /\ UNCHANGED sync
    /\ UNCHANGED host

\* ------------------------------------------------------- collections.deque
\* (mutant) appendleft in place of append
DequeAppendLeft(d, x, m) ==
    IF m = 0 THEN d
    ELSE IF Len(d) >= m THEN <<x>> \o SubSeq(d, 1, Len(d) - 1)
    ELSE <<x>> \o d

\* deque.append on a deque built with maxlen = m: a full deque drops its head
DequeAppend(d, x, m) ==
    IF m = 0 THEN d
    ELSE IF Len(d) >= m THEN Tail(d) \o <<x>>
    ELSE Append(d, x)

\* (mutant) pop in place of popleft: the newest request leaves
PopRight(d) == SubSeq(d, 1, Len(d) - 1)

\* (mutant) the drain empties the bucket
PopAll(d) == <<>>

\* deque.popleft: what is left
Popleft(d) == Tail(d)

ProcWindow == 1000

\* --------------------------------------------------------- allow_request
\* RateLimitRequest: the fields the engine reads
RateLimitRequest(id, timestamp) == [id |-> id, timestamp |-> timestamp]

\* RateLimitResponse.__init__
RateLimitResponse(is_allowed, headers, retry_after) ==
    [is_allowed |-> is_allowed, headers |-> headers, retry_after |-> retry_after]

\* (mutant) <= in place of <
AdmissibleLe(n) == n <= bucket_size

\* if current_size < self.bucket_size
Admissible(n) == n < bucket_size

\* (mutant) no capacity check, and a list in place of the bounded deque
BucketAfterUnchecked(b, req) == Append(b, req)

\* (mutant) the request is appended whatever the length: a full deque drops
\* its head to make room
BucketAfterAlways(b, req) == DequeAppend(b, req, maxlen)

\* the bucket after the decision on req
BucketAfter(b, req) ==
    IF Admissible(Len(b)) THEN DequeAppend(b, req, maxlen) ELSE b

\* (mutant) the slot the request takes is not counted
RemainingBefore(n) == bucket_size - n

\* "X-RateLimit-Remaining" of an admitted verdict
RemainingAfter(n) == bucket_size - n - 1

AcceptHeaders(n, current_time) ==
    ("X-RateLimit-Limit" :> Str(bucket_size))
    @@ ("X-RateLimit-Remaining" :> Str(RemainingAfter(n)))
    @@ ("X-RateLimit-Reset" :>
            Str(Trunc(current_time + (n + 1) * processing_interval, TicksPerSec)))

\* (mutant) the wait rounded up to whole seconds
RetryAfterCeil(n) == -((-(n * processing_interval)) \div TicksPerSec)

\* int(current_size * self.processing_interval)
RetryAfter(n) == Trunc(n * processing_interval, TicksPerSec)

RejectHeaders(n, current_time) ==
    ("X-RateLimit-Limit" :> Str(bucket_size))
    @@ ("X-RateLimit-Remaining" :> <<"0">>)
    @@ ("X-RateLimit-Reset" :>
            Str(Trunc(current_time + RetryAfter(n) * TicksPerSec, TicksPerSec)))
    @@ ("Retry-After" :> Str(RetryAfter(n)))

Verdict(n, current_time) ==
    IF Admissible(n)
    THEN RateLimitResponse(TRUE, AcceptHeaders(n, current_time), None)
    ELSE RateLimitResponse(FALSE, RejectHeaders(n, current_time), Some(RetryAfter(n)))

\* The call for req runs.  The caller built req (timestamp = time()) at some
\* moment up to now: calls issued together run in any order, so requests
\* reach the engine in any order of their timestamps.  client_ip, path,
\* method and metadata are never read by the engine.
AllowRequest(req) ==
    /\ Idle
    /\ phase = "ready"
    /\ issued < MaxReq
    /\ req.id = issued + 1
    /\ issued' = issued + 1
    /\ LET n == Len(bucket)
       IN /\ total_requests' = total_requests + 1
          /\ bucket' = BucketAfter(bucket, req)
          /\ IF Admissible(n)
             THEN /\ accepted_requests' = accepted_requests + 1
                  /\ arrival' = Append(arrival, req.id)
                  /\ UNCHANGED rejected_requests
             ELSE /\ rejected_requests' = rejected_requests + 1
                  /\ UNCHANGED <<accepted_requests, arrival>>
          /\ reply' = Some(Verdict(n, now))
          /\ responses' = [responses EXCEPT ![req.id] = Some(Verdict(n, now).is_allowed)]
    /\ UNCHANGED <<phase, args, bucket_size, leak_rate, processing_interval, maxlen,
                   processing_times, leak_task, tasks, awaiting, now>>
    /\ UNCHANGED sync
    /\ UNCHANGED app

\* ---------------------------------------------------------- _leak_bucket
\* asyncio.sleep(d) with d <= 0 yields once and returns
SleepUntil(t, d) == IF d > 0 THEN t + d ELSE t

\* (mutant) cancel() ends the task on the spot, whatever it is doing
CancelKills(tk) == [tk EXCEPT !.st = "done", !.must_cancel = TRUE]

\* Task.cancel(): the task is thrown CancelledError at its next step
Cancel(tk) == IF tk.st = "done" THEN tk ELSE [tk EXCEPT !.must_cancel = TRUE]

\* first step of a task made by create_task: runs up to the first sleep
TaskStart(t) ==
    /\ Idle
    /\ tasks[t].st = "scheduled"
    /\ ~tasks[t].must_cancel
    /\ tasks' = [tasks EXCEPT ![t] = [st |-> "sleeping",
                                       wake |-> SleepUntil(now, processing_interval),
                                       must_cancel |-> FALSE]]
    /\ UNCHANGED <<phase, args, engine, awaiting, now, issued, responses,
                   reply, arrival>>
    /\ UNCHANGED sync
    /\ UNCHANGED host

\* the waiters of a lock without the coroutine of drain task t
NotOfTask(ws, t) == SelectSeq(ws, LAMBDA f : f.task # t)

\* the cancelled task's next step: CancelledError leaves the while loop, from
\* the sleep or from the wait for the lock
TaskExit(t) ==
    /\ Idle
    /\ tasks[t].st \in {"scheduled", "sleeping", "woken"}
    /\ tasks[t].must_cancel
    /\ tasks' = [tasks EXCEPT ![t] = [st |-> "done", wake |-> 0, must_cancel |-> TRUE]]
    /\ UNCHANGED <<phase, args, engine, awaiting, now, issued, responses,
                   reply, arrival>>
    /\ lock' = [lock EXCEPT !.waiters = NotOfTask(@, t)]
    /\ UNCHANGED <<running, inside>>
    /\ UNCHANGED host

\* (mutant) the sleep of the drain loop never returns
NeverWakes(t) == FALSE

\* the sleep of an uncancelled task is over
Wakes(t) ==
    /\ tasks[t].st = "sleeping"
    /\ ~tasks[t].must_cancel
    /\ now >= tasks[t].wake

\* the ids queued, without one occurrence of id
RECURSIVE Without(_, _)
Without(s, id) ==
    IF s = <<>> THEN <<>>
    ELSE IF Head(s) = id THEN Tail(s)
    ELSE <<Head(s)>> \o Without(Tail(s), id)

\* one cycle of the loop: from the end of one sleep to the start of the next
LeakStep(t) ==
    /\ Idle
    /\ Wakes(t)
    /\ IF bucket # <<>>
       THEN /\ bucket' = Popleft(bucket)
            /\ processing_times' =
                   DequeAppend(processing_times, now - Head(bucket).timestamp, ProcWindow)
            /\ arrival' = Without(arrival, Head(bucket).id)
       ELSE UNCHANGED <<bucket, processing_times, arrival>>
    /\ tasks' = [tasks EXCEPT ![t].wake = SleepUntil(now, processing_interval)]
    /\ UNCHANGED <<phase, args, bucket_size, leak_rate, processing_interval, maxlen,
                   total_requests, accepted_requests, rejected_requests, leak_task,
                   awaiting, now, issued, responses, reply>>
    /\ UNCHANGED sync
    /\ UNCHANGED host

\* ----------------------------------------------------------- start / stop
\* a task that has not finished
Running(t) == tasks[t].st \in {"scheduled", "sleeping", "woken"}
RunningTasks == {t \in TaskIds : Running(t)}

FreeTasks == {t \in TaskIds : tasks[t].st = "none"}
NewTask == CHOOSE t \in FreeTasks : \A u \in FreeTasks : t <= u

\* if self.leak_task is None
StartCreates(handle) == handle = NoTask

Start(c) ==
    /\ Idle
    /\ phase = "ready"
    /\ awaiting[c] = NoTask
    /\ StartCreates(leak_task) => FreeTasks # {}
    /\ IF StartCreates(leak_task)
       THEN /\ tasks' = [tasks EXCEPT ![NewTask] = [st |-> "scheduled", wake |-> 0,
                                                     must_cancel |-> FALSE]]
            /\ leak_task' = NewTask
       ELSE UNCHANGED <<tasks, leak_task>>
    /\ UNCHANGED <<phase, args, bucket_size, leak_rate, processing_interval, bucket,
                   maxlen, total_requests, accepted_requests, rejected_requests,
                   processing_times, awaiting, now, issued, responses,
                   reply, arrival>>
    /\ UNCHANGED sync
    /\ UNCHANGED adapter

\* `await self.leak_task` returns (by CancelledError) once the task is done
Joined(t) == tasks[t].st = "done"

\* stop() up to its await; it runs through when the task is done already
Stop(c) ==
    /\ Idle
    /\ phase = "ready"
    /\ awaiting[c] = NoTask
    /\ IF leak_task # NoTask
       THEN /\ IF Joined(leak_task)
               THEN /\ leak_task' = NoTask
                    /\ UNCHANGED awaiting
               ELSE /\ awaiting' = [awaiting EXCEPT ![c] = leak_task]
                    /\ UNCHANGED leak_task
            /\ tasks' = [tasks EXCEPT ![leak_task] = Cancel(@)]
       ELSE UNCHANGED <<tasks, leak_task, awaiting>>
    /\ UNCHANGED <<phase, args, bucket_size, leak_rate, processing_interval, bucket,
                   maxlen, total_requests, accepted_requests, rejected_requests,
                   processing_times, now, issued, responses, reply,
                   arrival>>
    /\ UNCHANGED sync
    /\ UNCHANGED adapter

\* stop() from its await to its return
StopResume(c) ==
    /\ Idle
    /\ awaiting[c] # NoTask
    /\ Joined(awaiting[c])
    /\ leak_task' = NoTask
    /\ awaiting' = [awaiting EXCEPT ![c] = NoTask]
    /\ UNCHANGED tasks
    /\ UNCHANGED <<phase, args, bucket_size, leak_rate, processing_interval, bucket,
                   maxlen, total_requests, accepted_requests, rejected_requests,
                   processing_times, now, issued, responses, reply,
                   arrival>>
    /\ UNCHANGED sync
    /\ UNCHANGED adapter

\* ------------------------------------------------------------- get_status
RECURSIVE SeqSum(_)
SeqSum(s) == IF s = <<>> THEN 0 ELSE Head(s) + SeqSum(Tail(s))

\* a / b as a float: the pair of its numerator and denominator; the int n is n / 1
Quotient(a, b) == <<a, b>>

\* (mutant) the rate of the decided calls that were rejected
RejectionRate(accepted, rejected, total) ==
    IF total > 0 THEN Quotient(rejected, total) ELSE Quotient(0, 1)

\* "acceptance_rate"
AcceptanceRate(accepted, rejected, total) ==
    IF total > 0 THEN Quotient(accepted, total) ELSE Quotient(0, 1)

\* the dictionary get_status returns; current_size / self.bucket_size raises
\* ZeroDivisionError when bucket_size is 0
StatusReport ==
    IF bucket_size = 0 THEN "ZeroDivisionError"
    ELSE [config |-> [bucket_size |-> bucket_size, leak_rate |-> leak_rate,
                      processing_interval |-> processing_interval],
          current_state |-> [current_size |-> Len(bucket),
                             utilization |-> Quotient(Len(bucket), bucket_size)],
          metrics |-> [total_requests |-> total_requests,
                       accepted_requests |-> accepted_requests,
                       rejected_requests |-> rejected_requests,
                       acceptance_rate |->
                           AcceptanceRate(accepted_requests, rejected_requests,
                                          total_requests),
                       avg_processing_time |->
                           IF processing_times # <<>>
                           THEN Quotient(SeqSum(processing_times), Len(processing_times))
                           ELSE Quotient(0, 1)]]

\* get_status reads under the lock and writes nothing: the caller gets
\* StatusReport of the state it ran in
GetStatus ==
    /\ Idle
    /\ phase = "ready"
    /\ UNCHANGED vars

\* ------------------------------------------- the same code, lock by lock
\* A coroutine of the engine at `async with self.lock`: an allow_request call
\* with its request and its current_time, the drain loop of a task, or a
\* get_status call.
NoReq == RateLimitRequest(0, 0)
Coroutine(kind, req, current_time, task) ==
    [kind |-> kind, req |-> req, current_time |-> current_time, task |-> task]

\* (mutant) every acquire yields to the event loop before it takes the lock
AcquiresLater(l) == FALSE

\* Lock.acquire returns without suspending when the lock is free and no
\* coroutine waits for it
AcquiresAtOnce(l) == ~l.locked /\ l.waiters = <<>>

\* (mutant) a section entered without the lock being taken
NotLocked(l) == l

\* the lock once acquired
Locked(l) == [l EXCEPT !.locked = TRUE]

\* Lock.release
Released(l) == [l EXCEPT !.locked = FALSE]

\* `async with self.lock` reached by coroutine f: f goes on into the section,
\* or is suspended at the end of the queue of waiters
Enter(f) ==
    IF AcquiresAtOnce(lock)
    THEN /\ lock' = Locked(lock)
         /\ inside' = inside \cup {f}
         /\ running' = Some(f)
    ELSE /\ lock' = [lock EXCEPT !.waiters = Append(@, f)]
         /\ UNCHANGED <<running, inside>>

\* the coroutines of a kind whose section can run now: the one the event loop
\* is running, or, when it is idle, the first waiter of a lock that is free
AtSection(kind) ==
    IF running # None
    THEN {f \in inside : f = running[1] /\ f.kind = kind}
    ELSE IF lock.waiters # <<>> /\ ~lock.locked /\ Head(lock.waiters).kind = kind
         THEN {Head(lock.waiters)}
         ELSE {}

\* the end of the section of f: the lock is released and f runs on to its
\* return or to its next await
Leave(f) ==
    /\ lock' = Released([lock EXCEPT !.waiters = IF running = None THEN Tail(@) ELSE @])
    /\ inside' = inside \ {f}
    /\ running' = None

\* allow_request up to the lock
AllowEnter(req) ==
    /\ Idle
    /\ phase = "ready"
    /\ issued < MaxReq
    /\ req.id = issued + 1
    /\ issued' = issued + 1
    /\ total_requests' = total_requests + 1
    /\ Enter(Coroutine("allow", req, now, NoTask))
    /\ UNCHANGED <<phase, args, bucket_size, leak_rate, processing_interval, bucket,
                   maxlen, accepted_requests, rejected_requests, processing_times,
                   leak_task, tasks, awaiting, now, responses, reply, arrival>>
    /\ UNCHANGED host

\* allow_request under the lock, to its return
AllowDecide ==
    \E f \in AtSection("allow") :
        LET n == Len(bucket)
        IN /\ bucket' = BucketAfter(bucket, f.req)
           /\ IF Admissible(n)
              THEN /\ accepted_requests' = accepted_requests + 1
                   /\ arrival' = Append(arrival, f.req.id)
                   /\ UNCHANGED rejected_requests
              ELSE /\ rejected_requests' = rejected_requests + 1
                   /\ UNCHANGED <<accepted_requests, arrival>>
           /\ reply' = Some(Verdict(n, f.current_time))
           /\ responses' =
                  [responses EXCEPT ![f.req.id] = Some(Verdict(n, f.current_time).is_allowed)]
           /\ Leave(f)
           /\ UNCHANGED <<phase, args, bucket_size, leak_rate, processing_interval,
                          maxlen, total_requests, processing_times, leak_task, tasks,
                          awaiting, now, issued>>
           /\ UNCHANGED host

\* the drain loop from the end of its sleep to the lock
LeakWake(t) ==
    /\ Idle
    /\ Wakes(t)
    /\ tasks' = [tasks EXCEPT ![t].st = "woken"]
    /\ Enter(Coroutine("leak", NoReq, 0, t))
    /\ UNCHANGED <<phase, args, engine, awaiting, now, issued, responses, reply,
                   arrival>>
    /\ UNCHANGED host

\* the drain loop under the lock, and on to its next sleep
LeakDrain ==
    \E f \in AtSection("leak") :
        /\ ~tasks[f.task].must_cancel
        /\ IF bucket # <<>>
           THEN /\ bucket' = Popleft(bucket)
                /\ processing_times' =
                       DequeAppend(processing_times, now - Head(bucket).timestamp,
                                   ProcWindow)
                /\ arrival' = Without(arrival, Head(bucket).id)
           ELSE UNCHANGED <<bucket, processing_times, arrival>>
        /\ tasks' = [tasks EXCEPT ![f.task] =
                        [st |-> "sleeping",
                         wake |-> SleepUntil(now, processing_interval),
                         must_cancel |-> FALSE]]
        /\ Leave(f)
        /\ UNCHANGED <<phase, args, bucket_size, leak_rate, processing_interval,
                       maxlen, total_requests, accepted_requests, rejected_requests,
                       leak_task, awaiting, now, issued, responses, reply>>
        /\ UNCHANGED host

\* get_status up to the lock
StatusEnter ==
    /\ Idle
    /\ phase = "ready"
    /\ Len(lock.waiters) < MaxReq
    /\ Enter(Coroutine("status", NoReq, 0, NoTask))
    /\ UNCHANGED <<phase, args, engine, tasks, awaiting, now, issued, responses,
                   reply, arrival>>
    /\ UNCHANGED host

\* get_status under the lock: it returns StatusReport of the state it runs in
StatusRead ==
    \E f \in AtSection("status") :
        /\ Leave(f)
        /\ UNCHANGED <<phase, args, engine, tasks, awaiting, now, issued, responses,
                       reply, arrival>>
        /\ UNCHANGED host

\* ------------------------------------------- HTTPRateLimiter and the host
\* src/main.py: FastAPI() is built without the lifespan handler, and the route
\* handler calls allow_request a second time
MainApp == Application("main", FALSE, TRUE)

\* the application of the tests: FastAPI(lifespan=lifespan), a plain handler
TestApp == Application("test", TRUE, FALSE)

\* status codes the middleware is configured with
StatusCodes == {DefaultStatus, 503}

\* the task that runs the lifespan handler
Lifespan == CHOOSE c \in Callers : TRUE

NoHeaders == [name \in {} |-> <<>>]

JSONResponse(status_code, content, headers) ==
    [status_code |-> status_code, content |-> content, headers |-> headers]

\* `if rate_limit_response.retry_after`: None and 0 are false
Truthy(opt) == opt # None /\ opt[1] # 0

\* the headers of the error response: the verdict's, with Retry-After set
\* again from a retry_after that is not 0
RejectionHeaders(v) ==
    IF Truthy(v.retry_after)
    THEN ("Retry-After" :> Str(v.retry_after[1])) @@ v.headers
    ELSE v.headers

\* (mutant) headers the next stage has set are kept
KeepHeaders(response, headers) ==
    [response EXCEPT !.headers = @ @@ headers]

\* for header, value in headers.items(): response.headers[header] = str(value)
CopyHeaders(response, headers) ==
    [response EXCEPT !.headers = headers @@ @]

\* what the route handler returns for a verdict of its own, or for none
HandlerResponse(own) ==
    IF own # None /\ ~own[1].is_allowed
    THEN JSONResponse(429, [error |-> "Too Many Requests"], own[1].headers)
    ELSE JSONResponse(200, [message |-> "Hello World"], NoHeaders)

allButApp == <<phase, args, engine, tasks, awaiting, now, issued, responses, reply,
               arrival, sync, adapter>>

\* lifespan up to its yield, when it is registered: the application serves
Startup ==
    /\ app.phase = "created"
    /\ phase = "ready"
    /\ app' = [app EXCEPT !.phase = "serving"]
    /\ IF app.lifespan THEN Start(Lifespan) ELSE UNCHANGED allButApp

\* dispatch up to call_next, or to the return of the error response
Dispatch ==
    /\ app.phase = "serving"
    /\ AllowRequest(RateLimitRequest(issued + 1, now))
    /\ LET rate_limit_response == reply'[1]
       IN IF rate_limit_response.is_allowed
          THEN /\ mw' = [mw EXCEPT !.stats.total_requests = @ + 1,
                                   !.stats.allowed_requests = @ + 1]
               /\ forwarding' = forwarding
                                   \cup {[id |-> issued + 1,
                                          headers |-> rate_limit_response.headers]}
               /\ UNCHANGED http
          ELSE /\ mw' = [mw EXCEPT !.stats.total_requests = @ + 1,
                                   !.stats.rejected_requests = @ + 1]
               /\ http' = Some([id |-> issued + 1,
                                forwarded |-> FALSE,
                                response |->
                                    JSONResponse(mw.status_code,
                                                 [error |-> mw.error_message],
                                                 RejectionHeaders(rate_limit_response))])
               /\ UNCHANGED forwarding

\* the next stage answers request d and dispatch returns: the route handler
\* runs, with an allow_request call of its own in src/main.py, and the
\* verdict's headers are set on its response
CallNext(d) ==
    /\ d \in forwarding
    /\ IF app.handler_limits
       THEN /\ AllowRequest(RateLimitRequest(issued + 1, now))
            /\ http' = Some([id |-> d.id,
                             forwarded |-> TRUE,
                             response |-> CopyHeaders(HandlerResponse(reply'), d.headers)])
       ELSE /\ http' = Some([id |-> d.id,
                             forwarded |-> TRUE,
                             response |-> CopyHeaders(HandlerResponse(None), d.headers)])
            /\ UNCHANGED <<phase, args, engine, tasks, awaiting, now, issued,
                           responses, reply, arrival, sync, app>>
    /\ forwarding' = forwarding \ {d}
    /\ UNCHANGED mw

\* lifespan after its yield, when it is registered, once no request is served
Shutdown ==
    /\ app.phase = "serving"
    /\ forwarding = {}
    /\ IF app.lifespan
       THEN /\ Stop(Lifespan)
            /\ app' = [app EXCEPT !.phase = IF awaiting'[Lifespan] = NoTask
                                            THEN "down" ELSE "stopping"]
       ELSE /\ app' = [app EXCEPT !.phase = "down"]
            /\ UNCHANGED allButApp

\* the stop() of the lifespan handler returns
ShutdownEnds ==
    /\ app.phase = "stopping"
    /\ StopResume(Lifespan)
    /\ app' = [app EXCEPT !.phase = "down"]

\* ------------------------------------------------------------ transitions
Next ==
    \/ Construct
    \/ Tick
    \/ \E ts \in 0..now :
          AllowRequest(RateLimitRequest(issued + 1, ts)) /\ UNCHANGED adapter
    \/ \E t \in TaskIds : TaskStart(t)
    \/ \E t \in TaskIds : TaskExit(t)
    \/ \E t \in TaskIds : LeakStep(t)
    \/ \E c \in Callers : Start(c) /\ UNCHANGED app
    \/ \E c \in Callers : Stop(c) /\ UNCHANGED app
    \/ \E c \in Callers : StopResume(c) /\ UNCHANGED app
    \/ GetStatus

\* engines built from a positive bucket_size and a positive leak_rate
Spec == Init /\ [][Next]_vars

\* engines built from any arguments
SpecAny == InitAny /\ [][Next]_vars

\* the steps of the event loop when every `async with self.lock` is a step
NextFine ==
    \/ Construct
    \/ Tick
    \/ \E ts \in 0..now : AllowEnter(RateLimitRequest(issued + 1, ts))
    \/ AllowDecide
    \/ \E t \in TaskIds : TaskStart(t)
    \/ \E t \in TaskIds : TaskExit(t)
    \/ \E t \in TaskIds : LeakWake(t)
    \/ LeakDrain
    \/ \E c \in Callers : Start(c) /\ UNCHANGED app
    \/ \E c \in Callers : Stop(c) /\ UNCHANGED app
    \/ \E c \in Callers : StopResume(c) /\ UNCHANGED app
    \/ StatusEnter
    \/ StatusRead

SpecFine == Init /\ [][NextFine]_vars

\* ------------------------------------------------- time without a horizon
\* t - 1, not below 0
Earlier(t) == IF t > 0 THEN t - 1 ELSE 0

\* One tick passes.  Up to MaxTime the clock counts, as in Tick; from there on
\* the origin of the clock moves instead: the clock keeps its reading and every
\* time still to be read, the wake-up time of each sleep and the timestamp of
\* each queued request, is one tick earlier.  A sleep that is over stays over,
\* and the age recorded for a request older than MaxTime is MaxTime.
Passes ==
    /\ Idle
    /\ IF now < MaxTime
       THEN /\ now' = now + 1
            /\ UNCHANGED <<tasks, bucket>>
       ELSE /\ UNCHANGED now
            /\ tasks' = [t \in TaskIds |-> [tasks[t] EXCEPT !.wake = Earlier(@)]]
            /\ bucket' = [i \in 1..Len(bucket) |->
                              [bucket[i] EXCEPT !.timestamp = Earlier(@)]]
    /\ UNCHANGED <<phase, args, bucket_size, leak_rate, processing_interval, maxlen,
                   total_requests, accepted_requests, rejected_requests,
                   processing_times, leak_task, awaiting, issued, responses, reply,
                   arrival>>
    /\ UNCHANGED sync
    /\ UNCHANGED host

\* the steps of the event loop, lock by lock, with a clock that never stops;
\* a caller builds its request (timestamp = time()) right before the call,
\* start() and stop() are called by one task, as by the lifespan handler, and
\* get_status, which changes nothing, is not called
NextLive ==
    \/ Construct
    \/ Passes
    \/ AllowEnter(RateLimitRequest(issued + 1, now))
    \/ AllowDecide
    \/ \E t \in TaskIds : TaskStart(t)
    \/ \E t \in TaskIds : TaskExit(t)
    \/ \E t \in TaskIds : LeakWake(t)
    \/ LeakDrain
    \/ Start(Lifespan) /\ UNCHANGED app
    \/ Stop(Lifespan) /\ UNCHANGED app
    \/ StopResume(Lifespan) /\ UNCHANGED app

\* The scheduling of asyncio: time passes; a task that create_task scheduled,
\* or whose sleep is over, is run by the event loop once it stays ready; a
\* coroutine that holds the lock runs on to the end of its section.
Fairness ==
    /\ WF_vars(Passes)
    /\ \A t \in TaskIds : WF_vars(TaskStart(t))
    /\ \A t \in TaskIds : WF_vars(LeakWake(t))
    /\ WF_vars(LeakDrain)
    /\ WF_vars(AllowDecide)

SpecLive == Init /\ [][NextLive]_vars /\ Fairness

\* an application with the middleware added, from import to shutdown
InitHost ==
    /\ InitEngine(ValidBucketSizes, ValidLeakRates)
    /\ mw \in {Middleware(code) : code \in StatusCodes}
    /\ forwarding = {}
    /\ http = None
    /\ app \in {MainApp, TestApp}

NextHost ==
    \/ Construct
    \/ Tick
    \/ Startup
    \/ Dispatch
    \/ \E d \in forwarding : CallNext(d)
    \/ \E t \in TaskIds : TaskStart(t)
    \/ \E t \in TaskIds : TaskExit(t)
    \/ \E t \in TaskIds : LeakStep(t)
    \/ Shutdown
    \/ ShutdownEnds

SpecHost == InitHost /\ [][NextHost]_vars

\* ================================================================ claims
AllowStep == issued' = issued + 1
IdsOf(b) == [i \in 1..Len(b) |-> b[i].id]
IdSet(b) == {b[i].id : i \in 1..Len(b)}

DigitVal(ch) ==
    CASE ch = "0" -> 0 [] ch = "1" -> 1 [] ch = "2" -> 2 [] ch = "3" -> 3
      [] ch = "4" -> 4 [] ch = "5" -> 5 [] ch = "6" -> 6 [] ch = "7" -> 7
      [] ch = "8" -> 8 [] ch = "9" -> 9

RECURSIVE ParseNat(_)
ParseNat(s) ==
    IF s = <<>> THEN 0
    ELSE 10 * ParseNat(SubSeq(s, 1, Len(s) - 1)) + DigitVal(s[Len(s)])

\* int(s) of a decimal string
ParseInt(s) == IF s # <<>> /\ s[1] = "-" THEN -ParseNat(Tail(s)) ELSE ParseNat(s)

Admitted == {i \in ReqIds : responses[i] = Some(TRUE)}
Rejected == {i \in ReqIds : responses[i] = Some(FALSE)}

\* C1: in every reachable state the bucket holds at most bucket_size requests.
C1_BucketWithinCapacity == Len(bucket) <= bucket_size

\* a bucket filled to capacity again after a rejection and a drain
C1_Witness ==
    /\ phase = "ready"
    /\ Len(bucket) = bucket_size
    /\ rejected_requests > 0
    /\ processing_times # <<>>
    /\ leak_task # NoTask

\* C2: when more calls than bucket_size have returned and no drain event has
\* removed a request, exactly bucket_size of them were admitted and all the
\* others rejected, whatever order the calls ran in.
C2_ConcurrentBurst ==
    (phase = "ready" /\ issued > bucket_size /\ processing_times = <<>>)
        => /\ Cardinality(Admitted) = bucket_size
           /\ Cardinality(Rejected) = issued - bucket_size

\* a burst of MaxReq calls on a bucket of MaxCap that ran in another order than
\* their requests were built
C2_Witness ==
    /\ bucket_size = MaxCap
    /\ issued = MaxReq
    /\ processing_times = <<>>
    /\ Len(bucket) = MaxCap
    /\ bucket[1].timestamp > bucket[2].timestamp
    /\ Cardinality(Rejected) = MaxReq - MaxCap

\* C3: a call that finds n < bucket_size requests queued returns an admitted
\* verdict, puts its request at the tail and makes the queue n + 1 long.
C3_AdmitAppendsAtTail ==
    [][(AllowStep /\ Len(bucket) < bucket_size)
          => /\ reply'[1].is_allowed
             /\ responses'[issued + 1] = Some(TRUE)
             /\ \E ts \in 0..now :
                    bucket' = Append(bucket, RateLimitRequest(issued + 1, ts))
             /\ Len(bucket') = Len(bucket) + 1]_vars

\* MaxCap admissions in a row, none rejected, none drained
C3_Witness ==
    /\ reply # None
    /\ reply[1].is_allowed
    /\ Len(bucket) = MaxCap
    /\ IdsOf(bucket) = [i \in 1..MaxCap |-> i]
    /\ rejected_requests = 0

\* C4: a call that finds the bucket full is rejected and leaves it full; only a
\* drain event makes a full bucket not full; a drain event on a full bucket
\* leaves bucket_size - 1 queued, and a call that finds fewer than bucket_size
\* is admitted.
C4_FullRejectsUntilDrain ==
    [][/\ (AllowStep /\ Len(bucket) = bucket_size)
            => (~reply'[1].is_allowed /\ bucket' = bucket)
       /\ (Len(bucket) = bucket_size /\ Len(bucket') < bucket_size)
            => \E t \in TaskIds : LeakStep(t)
       /\ \A t \in TaskIds :
            (LeakStep(t) /\ Len(bucket) = bucket_size)
                => Len(bucket') = bucket_size - 1
       /\ (AllowStep /\ Len(bucket) < bucket_size) => reply'[1].is_allowed]_vars

\* a rejected call, then a drain, then the next call admitted into the last slot
C4_Witness ==
    /\ issued >= 2
    /\ reply # None
    /\ responses[issued] = Some(TRUE)
    /\ responses[issued - 1] = Some(FALSE)
    /\ reply[1].is_allowed
    /\ Len(bucket) = bucket_size
    /\ processing_times # <<>>

\* C5 as claimed: every drain event removes a request whose arrival timestamp
\* is the least among the queued ones.
C5_DrainsEarliestArrived ==
    [][\A t \in TaskIds :
          (LeakStep(t) /\ bucket # <<>>)
              => \E i \in 1..Len(bucket) :
                    /\ bucket[i].id \notin IdSet(bucket')
                    /\ \A j \in 1..Len(bucket) :
                          bucket[i].timestamp <= bucket[j].timestamp]_vars

\* C5 as amended: every drain event removes the request that was admitted
\* first among the queued ones, whatever the timestamps are.
C5_DrainsEarliestAdmitted ==
    [][\A t \in TaskIds :
          (LeakStep(t) /\ bucket # <<>>)
              => /\ IdSet(bucket) \ IdSet(bucket') = {Head(arrival)}
                 /\ IdsOf(bucket') = Tail(arrival)
                 /\ arrival' = Tail(arrival)]_vars

\* request 1, built after request 2, was admitted first and drained first;
\* request 2, with the earlier timestamp, is still queued
C5_Witness ==
    /\ processing_times = <<0>>
    /\ bucket # <<>>
    /\ bucket[1].id = 2
    /\ bucket[1].timestamp = 0
    /\ responses[1] = Some(TRUE)

\* C6: a drain cycle removes the head and nothing else when the bucket is not
\* empty, and leaves an empty bucket empty; a full bucket is bucket_size - 1
\* long after it.
C6_DrainRemovesOne ==
    [][\A t \in TaskIds :
          LeakStep(t)
              => /\ bucket = <<>> => bucket' = <<>>
                 /\ bucket # <<>> =>
                        /\ bucket' = Tail(bucket)
                        /\ Len(bucket') = Len(bucket) - 1
                        /\ Len(processing_times') = Len(processing_times) + 1
                 /\ Len(bucket) = bucket_size => Len(bucket') = bucket_size - 1]_vars

\* one drain cycle on a full bucket of MaxCap, no admission since
C6_Witness ==
    /\ bucket_size = MaxCap
    /\ accepted_requests = MaxCap
    /\ Len(processing_times) = 1
    /\ Len(bucket) = MaxCap - 1
    /\ bucket[1].id = 2

\* C7 as claimed: whenever start() can be called, it finds the handle None,
\* and so creates a drain loop, exactly when no drain loop is running.
C7_StartIdempotent ==
    \A c \in Callers :
        (phase = "ready" /\ awaiting[c] = NoTask)
            => (StartCreates(leak_task) <=> RunningTasks = {})

\* C8: when a stop() call returns, no drain loop of the engine is running; a
\* task that a stop() has cancelled runs no drain cycle; and while the handle
\* is None no stop() call can change anything.
C8_StopLeavesNoLoop ==
    [][/\ \A c \in Callers :
            /\ (StopResume(c) \/ (Stop(c) /\ leak_task # NoTask /\ awaiting'[c] = NoTask))
                    => (RunningTasks' = {} /\ leak_task' = NoTask)
            /\ leak_task = NoTask => ~ENABLED (Stop(c) /\ UNCHANGED app /\ vars' # vars)
       /\ \A t \in TaskIds :
            LeakStep(t) => (~tasks[t].must_cancel
                            /\ \A c \in Callers : awaiting[c] # t)]_vars

\* The part of C8 that holds in every interleaving: the task a stop() call
\* cancelled has finished when the call returns, and the handle is None.
StopJoinsItsTask ==
    [][\A c \in Callers :
            /\ StopResume(c) => (tasks'[awaiting[c]].st = "done" /\ leak_task' = NoTask)
            /\ (Stop(c) /\ leak_task # NoTask /\ awaiting'[c] = NoTask)
                    => (tasks'[leak_task].st = "done" /\ leak_task' = NoTask)]_vars

\* C9 as claimed: no engine exists whose bucket_size or leak_rate argument was
\* not positive.
C9_ConstructorRejectsNonPositive ==
    (args.bucket_size <= 0 \/ args.leak_rate <= 0) => phase # "ready"

RateLimitHeaders == {"X-RateLimit-Limit", "X-RateLimit-Remaining", "X-RateLimit-Reset"}

\* C10: an admitted verdict has the three X-RateLimit headers and no other, no
\* retry_after, Limit = bucket_size, and Remaining = bucket_size - n - 1 for
\* the queue length n the call found, which is bucket_size less the queue
\* length after the append and lies in 0..bucket_size - 1.
C10_AdmittedHeaders ==
    [][(AllowStep /\ reply'[1].is_allowed)
          => LET h == reply'[1].headers
                 remaining == ParseInt(h["X-RateLimit-Remaining"])
             IN /\ DOMAIN h = RateLimitHeaders
                /\ reply'[1].retry_after = None
                /\ ParseInt(h["X-RateLimit-Limit"]) = bucket_size
                /\ remaining = bucket_size - Len(bucket) - 1
                /\ remaining = bucket_size - Len(bucket')
                /\ remaining \in 0..(bucket_size - 1)]_vars

\* the first of two slots taken: Remaining is 1
C10_Witness ==
    /\ reply # None
    /\ reply[1].is_allowed
    /\ bucket_size = 2
    /\ Len(bucket) = 1
    /\ reply[1].headers["X-RateLimit-Remaining"] = <<"1">>
    /\ reply[1].headers["X-RateLimit-Limit"] = <<"2">>

RejectHeaders429 == RateLimitHeaders \cup {"Retry-After"}

\* C11: a rejected verdict is given at queue length n = bucket_size; its
\* retry_after is floor(n * processing_interval) seconds, its headers are
\* Limit = bucket_size, Remaining = 0, Retry-After = retry_after and
\* Reset = the whole seconds of current time + retry_after; an admitted
\* verdict has no Retry-After header.
C11_RejectedHeaders ==
    [][/\ (AllowStep /\ ~reply'[1].is_allowed)
            => LET v == reply'[1]
                   h == v.headers
                   n == Len(bucket)
                   retry == (n * processing_interval) \div TicksPerSec
               IN /\ n = bucket_size
                  /\ v.retry_after = Some(retry)
                  /\ DOMAIN h = RejectHeaders429
                  /\ ParseInt(h["X-RateLimit-Limit"]) = bucket_size
                  /\ ParseInt(h["X-RateLimit-Remaining"]) = 0
                  /\ ParseInt(h["Retry-After"]) = v.retry_after[1]
                  /\ ParseInt(h["X-RateLimit-Reset"])
                         = (now + retry * TicksPerSec) \div TicksPerSec
       /\ (AllowStep /\ reply'[1].is_allowed)
            => "Retry-After" \notin DOMAIN reply'[1].headers]_vars

\* one request queued at two per second, half a second into the run: the
\* wait of 0.5 s is reported as 0 and the reset as second 0
C11_Witness ==
    /\ reply # None
    /\ ~reply[1].is_allowed
    /\ bucket_size = 1
    /\ leak_rate = 2
    /\ now = 1
    /\ reply[1].retry_after = Some(0)
    /\ reply[1].headers["Retry-After"] = <<"0">>
    /\ reply[1].headers["X-RateLimit-Reset"] = <<"0">>

\* C12: at most one coroutine is inside `async with self.lock`, the lock is
\* held exactly while one is, no coroutine ever waits for it, and while a
\* coroutine is inside the only step that can be taken is the end of its
\* section: a decision's read of the queue length and its append, a drain and
\* a status read are each one step that nothing interleaves with.
C12_MutualExclusion ==
    /\ Cardinality(inside) <= 1
    /\ lock.locked <=> inside # {}
    /\ lock.waiters = <<>>
    /\ inside # {} => ~ENABLED (NextFine /\ inside' # {})

\* a drain loop inside the section of a full bucket that has rejected a call
C12_Witness ==
    /\ lock.locked
    /\ \E f \in inside : f.kind = "leak" /\ Running(f.task)
    /\ Len(bucket) = bucket_size
    /\ rejected_requests > 0

\* C13: the counters a get_status call reads satisfy
\* total_requests = accepted_requests + rejected_requests.
C13_SnapshotConsistent ==
    AtSection("status") # {}
        => LET m == StatusReport.metrics
           IN m.total_requests = m.accepted_requests + m.rejected_requests

\* a snapshot taken after admissions, a rejection and a drain, every call made
C13_Witness ==
    /\ \E f \in inside : f.kind = "status"
    /\ issued = MaxReq
    /\ accepted_requests > 0
    /\ rejected_requests > 0
    /\ processing_times # <<>>

\* C14: the acceptance_rate a get_status call reports is the number
\* accepted_requests / total_requests when total_requests > 0 and the number
\* 0 when it is 0; no step of get_status changes the bucket, a counter or the
\* latency samples.
C14_AcceptanceRate ==
    /\ AtSection("status") # {}
          => LET r == StatusReport.metrics.acceptance_rate
             IN /\ r[2] # 0
                /\ total_requests > 0 => r[1] * total_requests = accepted_requests * r[2]
                /\ total_requests = 0 => r[1] = 0
    /\ ~ENABLED ((StatusEnter \/ StatusRead)
                    /\ <<bucket, total_requests, accepted_requests, rejected_requests,
                         processing_times>>'
                        # <<bucket, total_requests, accepted_requests, rejected_requests,
                             processing_times>>)

\* two of three calls admitted, one request drained: the rate read is 2 / 3
C14_Witness ==
    /\ \E f \in inside : f.kind = "status"
    /\ total_requests = 3
    /\ accepted_requests = 2
    /\ processing_times # <<>>
    /\ StatusReport.metrics.acceptance_rate = Quotient(2, 3)

Counters == <<total_requests, accepted_requests, rejected_requests>>

\* C15: a step of stop() changes no bucket content, counter, latency sample or
\* verdict, and touches no task but the one the handle names, which it only
\* marks for cancellation; the exit of the cancelled task changes none of them
\* either; and a call made while a stop() is waiting for the drain task is
\* decided as at any other time and returns its verdict.
C15_StopCancelsOnlyDrain ==
    [][/\ \A c \in Callers :
            (Stop(c) \/ StopResume(c))
                => /\ UNCHANGED <<bucket, Counters, processing_times, issued,
                                  responses, reply>>
                   /\ \A t \in TaskIds :
                        tasks'[t] # tasks[t]
                            => /\ t = leak_task
                               /\ tasks'[t] = [tasks[t] EXCEPT !.must_cancel = TRUE]
       /\ \A t \in TaskIds :
            TaskExit(t) => UNCHANGED <<bucket, Counters, processing_times, responses>>
       /\ (AllowStep /\ \E c \in Callers : awaiting[c] # NoTask)
            => /\ total_requests' = total_requests + 1
               /\ responses'[issued + 1] = Some(Len(bucket) < bucket_size)
               /\ reply'[1].is_allowed = (Len(bucket) < bucket_size)
               /\ Len(bucket') = IF Len(bucket) < bucket_size
                                 THEN Len(bucket) + 1 ELSE Len(bucket)]_vars

\* a stop() is waiting for the drain task it cancelled, which has not left its
\* sleep yet; every call made has its verdict, and the bucket is full
C15_Witness ==
    /\ \E c \in Callers :
          /\ awaiting[c] # NoTask
          /\ tasks[awaiting[c]].st = "sleeping"
          /\ tasks[awaiting[c]].must_cancel
    /\ issued = MaxReq
    /\ \A i \in ReqIds : responses[i] # None
    /\ Len(bucket) = bucket_size
    /\ rejected_requests > 0

\* a step of dispatch up to call_next or to the error response
DispatchStep == mw'.stats.total_requests = mw.stats.total_requests + 1

\* C16: dispatch calls allow_request once; a request with an admitted verdict
\* goes to the next stage, and the response dispatch returns for it has every
\* header of that verdict, with the verdict's value; a request with a rejected
\* verdict never goes to the next stage and is answered with the configured
\* status code, an error body and the verdict's headers, Retry-After among
\* them.
C16_MiddlewareDispatch ==
    [][/\ DispatchStep
            => LET v == reply'[1]
               IN /\ issued' = issued + 1
                  /\ total_requests' = total_requests + 1
                  /\ v.is_allowed
                        => /\ forwarding' =
                                forwarding \cup {[id |-> issued + 1, headers |-> v.headers]}
                           /\ [id |-> issued + 1, headers |-> v.headers] \notin forwarding
                           /\ http' = http
                  /\ ~v.is_allowed
                        => /\ forwarding' = forwarding
                           /\ http'[1].id = issued + 1
                           /\ ~http'[1].forwarded
                           /\ http'[1].response.status_code = mw.status_code
                           /\ DOMAIN http'[1].response.content = {"error"}
                           /\ http'[1].response.headers = v.headers
                           /\ "Retry-After" \in DOMAIN http'[1].response.headers
       /\ \A d \in forwarding :
            d \notin forwarding'
                => /\ http'[1].id = d.id
                   /\ http'[1].forwarded
                   /\ \A name \in DOMAIN d.headers :
                        /\ name \in DOMAIN http'[1].response.headers
                        /\ http'[1].response.headers[name] = d.headers[name]
       /\ http' # http => (http'[1].forwarded <=> ~DispatchStep)]_vars

\* src/main.py: a request admitted by the middleware into the first of two
\* slots and rejected by the route handler when the bucket had filled: the 429
\* of the handler leaves with the Remaining of the middleware's verdict
C16_Witness ==
    /\ http # None
    /\ http[1].forwarded
    /\ http[1].response.status_code = 429
    /\ http[1].response.headers["X-RateLimit-Remaining"] = <<"1">>
    /\ "Retry-After" \in DOMAIN http[1].response.headers
    /\ mw.stats.allowed_requests = 2

\* the drain loop has been started at some time
EverStarted == \E t \in TaskIds : tasks[t].st # "none"

\* C17: the application makes no allow_request call while the drain task has
\* never been started, and once it is shut down no drain task is running.
C17_HostLifecycle ==
    /\ issued > 0 => EverStarted
    /\ app.phase = "down" => RunningTasks = {}

\* What holds of C17: it is true of the application that registers the
\* lifespan handler.
LifecycleWhenRegistered == app.lifespan => C17_HostLifecycle

\* C18: whatever the interleaving of start() and stop() calls, at most one
\* drain loop is alive and every drain loop alive is the task the engine's
\* handle refers to, so that a later stop() reaches it.
C18_NoOrphanDrain ==
    /\ Cardinality(RunningTasks) <= 1
    /\ \A t \in RunningTasks : t = leak_task

\* the admitted requests that are no longer queued
Drained == Admitted \ IdSet(bucket)

\* the samples the window holds once n requests were drained
WindowHolds(n) == IF n < ProcWindow THEN n ELSE ProcWindow

\* every admitted request is queued once or was drained, and each drained
\* request left one sample
Conserved ==
    /\ IdSet(bucket) \subseteq Admitted
    /\ Len(bucket) = Cardinality(IdSet(bucket))
    /\ accepted_requests = Cardinality(Admitted)
    /\ accepted_requests = Len(bucket) + Cardinality(Drained)
    /\ Len(processing_times) = WindowHolds(Cardinality(Drained))

\* C19: accepted_requests is the bucket length plus the number of requests
\* the drain removed, each removed request has one sample in processing_times
\* (up to the window of 1000), and a queued request leaves the bucket in a
\* drain cycle only, one per cycle and with its sample, also after a stop()
\* cancelled the drain task.
C19_Conservation ==
    [][/\ Conserved'
       /\ (IdSet(bucket) \ IdSet(bucket')) # {}
            => \E t \in TaskIds :
                  /\ LeakStep(t)
                  /\ IdSet(bucket) \ IdSet(bucket') = {Head(bucket).id}
                  /\ processing_times' =
                        DequeAppend(processing_times,
                                    now - Head(bucket).timestamp, ProcWindow)
       /\ (\E t \in TaskIds : TaskExit(t))
            => UNCHANGED <<bucket, processing_times, accepted_requests>>
       /\ (\E c \in Callers : Stop(c) \/ StopResume(c))
            => UNCHANGED <<bucket, processing_times, accepted_requests>>]_vars

\* one request was drained and left its sample, another is still queued, and
\* the drain task was cancelled by stop() and has ended
C19_Witness ==
    /\ Conserved
    /\ Cardinality(Drained) = 1
    /\ Len(processing_times) = 1
    /\ Len(bucket) >= 1
    /\ leak_task = NoTask
    /\ \E t \in TaskIds : tasks[t].st = "done"

\* the step is an allow_request call that was rejected
RejectedStep == AllowStep /\ reply' # None /\ ~reply'[1].is_allowed

\* C20: a rejected allow_request call leaves the bucket, its order and
\* accepted_requests as they were and adds one to total_requests and one to
\* rejected_requests; nothing else of the engine changes, and the full deque
\* drops no queued request.
C20_RejectedFrame ==
    [][RejectedStep =>
          /\ Len(bucket) = maxlen
          /\ bucket' = bucket
          /\ accepted_requests' = accepted_requests
          /\ total_requests' = total_requests + 1
          /\ rejected_requests' = rejected_requests + 1
          /\ UNCHANGED <<bucket_size, leak_rate, processing_interval, maxlen,
                         processing_times, leak_task, tasks>>]_vars

\* the third call was rejected; the two requests admitted before it are still
\* queued in their order
C20_Witness ==
    /\ reply # None
    /\ ~reply[1].is_allowed
    /\ bucket_size = MaxCap
    /\ Len(bucket) = MaxCap
    /\ \A i \in 1..Len(bucket) : bucket[i].id = i
    /\ accepted_requests = MaxCap
    /\ rejected_requests = 1
    /\ total_requests = MaxCap + 1

\* the drain loops that run and were not cancelled
LiveLoops == {t \in TaskIds : Running(t) /\ ~tasks[t].must_cancel}

====
